---- MODULE Spec2Model ----
(***************************************************************************)
(* Model of drivers/media/i2c/maxim/local/maxim2c/maxim2c_i2c.c: the       *)
(* register read / write / update helpers, the init-sequence decoder and   *)
(* runner, and the i2c-mux channel selector of the MAXIM2C deserializer.   *)
(*                                                                         *)
(* A u32 is the pair <<hi, lo>> of its 16-bit halves (value hi*65536+lo),  *)
(* so that all 32 bits are kept.  u16 / u8 / int values are plain numbers. *)
(* A byte buffer is a sequence; C index k is element k+1.                  *)
(***************************************************************************)
EXTENDS Integers, Sequences, FiniteSets, TLC

VARIABLES
    pc,        \* position of the caller: "idle", "loaded", "done"
    call,      \* the last call: its arguments, return value and bus traffic
               \* (link: the mask of the link select it issued, -1 if none)
    cell,      \* the caller's u32 that maxim2c_i2c_read stores into (*reg_val)
    node,      \* the device-tree node handed to maxim2c_i2c_load_init_seq
    init_seq,  \* struct maxim2c_i2c_init_seq
    i2c_mux,   \* maxim2c->i2c_mux: mux_disable, mux_channel
    link_mask  \* mask last programmed successfully by link select (-1: none)

vars == <<pc, call, cell, node, init_seq, i2c_mux, link_mask>>

----------------------------------------------------------------------------
(* Program constants *)

EINVAL == 22
EIO == 5
ENOMEM == 12
MAXIM2C_REG_NULL == 65535
ARRAY_SIZE_msgs == 2
MAXIM2C_LINK_ID_MAX == 2

----------------------------------------------------------------------------
(* Bounds of the model *)

MaxAddrIdx == 1      \* register addresses tried: RegAddr(0..MaxAddrIdx)
MaxRegLen == 3       \* reg_len arguments tried: 0..MaxRegLen
MaxValLen == 5       \* val_len arguments tried: 0..MaxValLen
MaxValIdx == 3       \* u32 values and masks tried: Val32(0..MaxValIdx)
MaxRxIdx == 1        \* received byte patterns tried: RxData(0..MaxRxIdx)

MaxEntryIdx == 3     \* register array entries tried: Entry(0..MaxEntryIdx)
MaxArr == 3          \* entries before the end entry of a register array
MaxFailAt == 4       \* the bus call that fails is one of the first MaxFailAt
MaxDataLen == 12     \* bytes of an init-sequence property
MaxPatIdx == 2       \* byte patterns of the property: SeqData(0..MaxPatIdx, _)
MaxItemSize == 12    \* seq-item-size values tried: 0..MaxItemSize
MaxGeomLen == 5      \* reg-addr-len and reg-val-len values tried: 0..MaxGeomLen

RegAddr(i) == (i * 4660 + 86) % 65536

Val32(i) ==
    CASE i = 0 -> <<0, 0>>
      [] i = 1 -> <<4660, 22136>>
      [] i = 2 -> <<65535, 65535>>
      [] i = 3 -> <<61440, 255>>
      [] OTHER -> <<(i * 4660) % 65536, (i * 22136) % 65536>>

RxData(i) == [k \in 1..4 |-> (161 + 17 * k + 94 * i) % 256]

RegAddrs == {RegAddr(i) : i \in 0..MaxAddrIdx}
RegLens == 0..MaxRegLen
ValLens == {<<0, n>> : n \in 0..MaxValLen} \cup {<<32768, 0>>}
Vals32 == {Val32(i) : i \in 0..MaxValIdx}
RxSamples == {RxData(i) : i \in 0..MaxRxIdx}

\* what i2c_transfer can return for a one-message and a two-message transfer:
\* the number of messages executed, or a negative errno
SendRets == {1, 0, -6, -121}
XferRets == {2, 1, 0, -6, -121}

----------------------------------------------------------------------------
(* u32 arithmetic on <<hi, lo>> pairs *)

RECURSIVE BitAnd(_, _, _)
BitAnd(a, b, n) ==
    IF n = 0 THEN 0
    ELSE (a % 2) * (b % 2) + 2 * BitAnd(a \div 2, b \div 2, n - 1)

RECURSIVE BitOr(_, _, _)
BitOr(a, b, n) ==
    IF n = 0 THEN 0
    ELSE (IF (a % 2) + (b % 2) > 0 THEN 1 ELSE 0)
         + 2 * BitOr(a \div 2, b \div 2, n - 1)

And32(a, b) == <<BitAnd(a[1], b[1], 16), BitAnd(a[2], b[2], 16)>>
Or32(a, b) == <<BitOr(a[1], b[1], 16), BitOr(a[2], b[2], 16)>>
Not32(a) == <<65535 - a[1], 65535 - a[2]>>

\* a > n for a u32 a and a small number n
Gt32(a, n) == a[1] # 0 \/ a[2] > n

\* the four bytes of a __be32 in memory order
cpu_to_be32(v) == <<v[1] \div 256, v[1] % 256, v[2] \div 256, v[2] % 256>>
be32_to_cpu(b) == <<b[1] * 256 + b[2], b[3] * 256 + b[4]>>
\* the two bytes of a __be16 in memory order
cpu_to_be16(a) == <<a \div 256, a % 256>>

Min(a, b) == IF a < b THEN a ELSE b
Max(a, b) == IF a > b THEN a ELSE b

----------------------------------------------------------------------------
(* Bus traffic.  A record of one bus call:                                 *)
(*   type "send": i2c_master_send of len bytes; data are the bytes of the  *)
(*                buffer that the code has set, in order;                  *)
(*   type "xfer": i2c_transfer of two messages, a write of len bytes       *)
(*                (data: the bytes of the address buffer that are sent)    *)
(*                and a read of rlen bytes (rdata: the bytes received).    *)
(* Bytes that len covers beyond data are indeterminate (not set by the     *)
(* code, or outside the buffer); they are not represented.                 *)
(* res is the value returned by the bus call.  idx is the position in the  *)
(* register array of the entry the call was made for (0: no array).  A     *)
(* record of type "sleep" is a delay of len milliseconds, not a bus call.  *)

BusSend(len, data, res) ==
    [type |-> "send", len |-> len, data |-> data, rlen |-> 0,
     rdata |-> <<>>, res |-> res, idx |-> 0]

BusXfer(len, data, rlen, rdata, res) ==
    [type |-> "xfer", len |-> len, data |-> data, rlen |-> rlen,
     rdata |-> rdata, res |-> res, idx |-> 0]

\* usleep_range(ms * 1000, ms * 1000 + 100)
Sleep(ms) ==
    [type |-> "sleep", len |-> ms, data |-> <<>>, rlen |-> 0,
     rdata |-> <<>>, res |-> 0, idx |-> 0]

\* i2c_master_send(client, buf, count): count if its one message was
\* transferred, else what i2c_transfer returned
i2c_master_send(count, t) == IF t = 1 THEN count ELSE t

----------------------------------------------------------------------------
(* maxim2c_i2c_write: reg_addr u16, reg_len u16, val_len u32, reg_val u32. *)
(* t is what the bus does with the transfer.                               *)

\* val_i starts at 0: the high bytes of reg_val are sent
maxim2c_i2c_write_high_bytes(reg_addr, reg_len, val_len, reg_val, t) ==
    IF Gt32(val_len, 4)
    THEN [ret |-> -EINVAL, bus |-> <<>>]
    ELSE LET n == val_len[2]
             addr == IF reg_len = 2
                     THEN <<reg_addr \div 256, reg_addr % 256>>
                     ELSE <<reg_addr % 256>>
             val_p == cpu_to_be32(reg_val)
             buf == addr \o SubSeq(val_p, 1, n)
             count == n + reg_len
             res == i2c_master_send(count, t)
         IN  [ret |-> IF res # count THEN -EIO ELSE 0,
              bus |-> <<BusSend(count, SubSeq(buf, 1, Min(count, Len(buf))),
                                res)>>]

maxim2c_i2c_write(reg_addr, reg_len, val_len, reg_val, t) ==
    IF Gt32(val_len, 4)
    THEN [ret |-> -EINVAL, bus |-> <<>>]
    ELSE LET n == val_len[2]
             addr == IF reg_len = 2
                     THEN <<reg_addr \div 256, reg_addr % 256>>
                     ELSE <<reg_addr % 256>>
             val_p == cpu_to_be32(reg_val)
             val_i == 4 - n
             buf == addr \o SubSeq(val_p, val_i + 1, 4)
             count == n + reg_len
             res == i2c_master_send(count, t)
         IN  [ret |-> IF res # count THEN -EIO ELSE 0,
              bus |-> <<BusSend(count, SubSeq(buf, 1, Min(count, Len(buf))),
                                res)>>]

(* maxim2c_i2c_read: old is the content of *reg_val before the call, t is  *)
(* what i2c_transfer returns, rx the bytes the device puts on the bus.     *)

\* msgs[1].buf = &data_be_p[0]: the bytes land at the high end of data_be
maxim2c_i2c_read_buf_at_start(reg_addr, reg_len, val_len, old, t, rx) ==
    IF Gt32(val_len, 4) \/ val_len = <<0, 0>>
    THEN [ret |-> -EINVAL, bus |-> <<>>, reg_val |-> old]
    ELSE LET n == val_len[2]
             reg_be_p == cpu_to_be16(reg_addr)
             wdata == SubSeq(reg_be_p, Max(2 - reg_len, 0) + 1, 2)
             got == IF t = ARRAY_SIZE_msgs THEN SubSeq(rx, 1, n) ELSE <<>>
             data_be == [k \in 1..4 |-> IF k <= n THEN rx[k] ELSE 0]
             xfer == BusXfer(reg_len, wdata, n, got, t)
         IN  IF t # ARRAY_SIZE_msgs
             THEN [ret |-> -EIO, bus |-> <<xfer>>, reg_val |-> old]
             ELSE [ret |-> 0, bus |-> <<xfer>>,
                   reg_val |-> be32_to_cpu(data_be)]

maxim2c_i2c_read(reg_addr, reg_len, val_len, old, t, rx) ==
    IF Gt32(val_len, 4) \/ val_len = <<0, 0>>
    THEN [ret |-> -EINVAL, bus |-> <<>>, reg_val |-> old]
    ELSE LET n == val_len[2]
             reg_be_p == cpu_to_be16(reg_addr)
             \* msgs[0].buf = &reg_be_p[2 - reg_len], msgs[0].len = reg_len
             wdata == SubSeq(reg_be_p, Max(2 - reg_len, 0) + 1, 2)
             got == IF t = ARRAY_SIZE_msgs THEN SubSeq(rx, 1, n) ELSE <<>>
             \* data_be = 0; msgs[1].buf = &data_be_p[4 - val_len]
             data_be == [k \in 1..4 |-> IF k > 4 - n THEN rx[k - (4 - n)]
                                        ELSE 0]
             xfer == BusXfer(reg_len, wdata, n, got, t)
         IN  IF t # ARRAY_SIZE_msgs
             THEN [ret |-> -EIO, bus |-> <<xfer>>, reg_val |-> old]
             ELSE [ret |-> 0, bus |-> <<xfer>>,
                   reg_val |-> be32_to_cpu(data_be)]

(* maxim2c_i2c_update: env = [xfer, rx, send] is what the bus does.        *)

\* without value &= ~val_mask
update_no_clear(reg_addr, reg_len, val_len, val_mask, reg_val, env) ==
    LET r == maxim2c_i2c_read(reg_addr, reg_len, val_len, <<0, 0>>,
                              env.xfer, env.rx)
    IN  IF r.ret # 0
        THEN [ret |-> r.ret, bus |-> r.bus]
        ELSE LET value == Or32(r.reg_val, And32(reg_val, val_mask))
                 w == maxim2c_i2c_write(reg_addr, reg_len, val_len, value,
                                        env.send)
             IN  [ret |-> w.ret, bus |-> r.bus \o w.bus]

maxim2c_i2c_update(reg_addr, reg_len, val_len, val_mask, reg_val, env) ==
    LET r == maxim2c_i2c_read(reg_addr, reg_len, val_len, <<0, 0>>,
                              env.xfer, env.rx)
    IN  IF r.ret # 0
        THEN [ret |-> r.ret, bus |-> r.bus]
        ELSE LET value == Or32(And32(r.reg_val, Not32(val_mask)),
                               And32(reg_val, val_mask))
                 w == maxim2c_i2c_write(reg_addr, reg_len, val_len, value,
                                        env.send)
             IN  [ret |-> w.ret, bus |-> r.bus \o w.bus]

----------------------------------------------------------------------------
(* struct maxim2c_i2c_regval: reg_len u16, reg_addr u16, val_len u32,      *)
(* reg_val u32, val_mask u32, delay u8.                                    *)

Regval(reg_len, reg_addr, val_len, reg_val, val_mask, delay) ==
    [reg_len |-> reg_len, reg_addr |-> reg_addr, val_len |-> val_len,
     reg_val |-> reg_val, val_mask |-> val_mask, delay |-> delay]

IsBusCall(e) == e.type # "sleep"
BusCalls(log) == SelectSeq(log, IsBusCall)

(* maxim2c_i2c_write_array: the loop from index i (1-based) with the       *)
(* current ret and the traffic so far.  env says which bus call of the     *)
(* run fails (failAt, 0: none) and how, and what the device answers.       *)

\* the loop without its (ret == 0) condition
RECURSIVE WriteArrayLoopNoStop(_, _, _, _, _)
WriteArrayLoopNoStop(regs, i, ret, log, env) ==
    IF regs[i].reg_addr # MAXIM2C_REG_NULL
    THEN LET k == Len(BusCalls(log))
             t2(j) == IF j = env.failAt THEN env.xfail ELSE 2
             t1(j) == IF j = env.failAt THEN env.sfail ELSE 1
             r == IF regs[i].val_mask # <<0, 0>>
                  THEN maxim2c_i2c_update(regs[i].reg_addr, regs[i].reg_len,
                          regs[i].val_len, regs[i].val_mask, regs[i].reg_val,
                          [xfer |-> t2(k + 1), rx |-> env.rx,
                           send |-> t1(k + 2)])
                  ELSE maxim2c_i2c_write(regs[i].reg_addr, regs[i].reg_len,
                          regs[i].val_len, regs[i].reg_val, t1(k + 1))
             tagged == [j \in 1..Len(r.bus) |-> [r.bus[j] EXCEPT !.idx = i]]
             slept == IF regs[i].delay # 0 THEN <<Sleep(regs[i].delay)>>
                      ELSE <<>>
         IN  WriteArrayLoopNoStop(regs, i + 1, r.ret,
                                  log \o tagged \o slept, env)
    ELSE [ret |-> ret, bus |-> log]

RECURSIVE WriteArrayLoop(_, _, _, _, _)
WriteArrayLoop(regs, i, ret, log, env) ==
    IF ret = 0 /\ regs[i].reg_addr # MAXIM2C_REG_NULL
    THEN LET k == Len(BusCalls(log))
             t2(j) == IF j = env.failAt THEN env.xfail ELSE 2
             t1(j) == IF j = env.failAt THEN env.sfail ELSE 1
             r == IF regs[i].val_mask # <<0, 0>>
                  THEN maxim2c_i2c_update(regs[i].reg_addr, regs[i].reg_len,
                          regs[i].val_len, regs[i].val_mask, regs[i].reg_val,
                          [xfer |-> t2(k + 1), rx |-> env.rx,
                           send |-> t1(k + 2)])
                  ELSE maxim2c_i2c_write(regs[i].reg_addr, regs[i].reg_len,
                          regs[i].val_len, regs[i].reg_val, t1(k + 1))
             tagged == [j \in 1..Len(r.bus) |-> [r.bus[j] EXCEPT !.idx = i]]
             slept == IF regs[i].delay # 0 THEN <<Sleep(regs[i].delay)>>
                      ELSE <<>>
         IN  WriteArrayLoop(regs, i + 1, r.ret, log \o tagged \o slept, env)
    ELSE [ret |-> ret, bus |-> log]

maxim2c_i2c_write_array(regs, env) == WriteArrayLoop(regs, 1, 0, <<>>, env)

----------------------------------------------------------------------------
(* struct maxim2c_i2c_init_seq: reg_init_seq (NULL or the array),          *)
(* reg_seq_size, seq_item_size, reg_len, val_len, all u32.                 *)

NULL == <<>>

ZeroSeq ==
    [reg_init_seq |-> NULL, reg_seq_size |-> <<0, 0>>,
     seq_item_size |-> <<0, 0>>, reg_len |-> <<0, 0>>, val_len |-> <<0, 0>>]

\* an element as devm_kcalloc hands it out
ZeroRegval == Regval(0, 0, <<0, 0>>, <<0, 0>>, <<0, 0>>, 0)

\* a + b in u32
Add32(a, b) ==
    LET lo == a[2] + b[2]
    IN  <<(a[1] + b[1] + lo \div 65536) % 65536, lo % 65536>>

\* data_len % b and data_len / b, computed in u32, for 0 <= data_len < 65536
ModLen(data_len, b) == IF b[1] # 0 THEN data_len ELSE data_len % b[2]
DivLen(data_len, b) == IF b[1] # 0 THEN 0 ELSE data_len \div b[2]

\* *d8 for d8 = data_buf + off; a read beyond the buffer yields oob
Deref(data_buf, off, oob) ==
    IF off < Len(data_buf) THEN data_buf[off + 1] ELSE oob

\* number of bytes that switch (len) { case 4: .. case 1: .. } reads
SwitchLen(len) == IF len[1] = 0 /\ len[2] \in 1..4 THEN len[2] ELSE 0

\* the u32 the switch ORs together from the n bytes at d8
SwitchVal(data_buf, d8, n, oob) ==
    LET b(k) == IF k < n THEN Deref(data_buf, d8 + n - 1 - k, oob) ELSE 0
    IN  <<b(3) * 256 + b(2), b(1) * 256 + b(0)>>

\* one turn of the decoding loop: the element and the advanced d8
ParseItem(data_buf, d8, seq, oob) ==
    LET rn == SwitchLen(seq.reg_len)
        vn == SwitchLen(seq.val_len)
        addr == SwitchVal(data_buf, d8, rn, oob)
        val == SwitchVal(data_buf, d8 + rn, vn, oob)
        mask == SwitchVal(data_buf, d8 + rn + vn, vn, oob)
        delay == Deref(data_buf, d8 + rn + 2 * vn, oob)
    IN  [regval |-> Regval(seq.reg_len[2], addr[2], seq.val_len, val, mask,
                           delay),
         d8 |-> d8 + rn + 2 * vn + 1]

RECURSIVE ParseLoop(_, _, _, _, _, _)
ParseLoop(data_buf, i, d8, seq, regs, oob) ==
    IF i < seq.reg_seq_size[2] - 1
    THEN LET it == ParseItem(data_buf, d8, seq, oob)
         IN  ParseLoop(data_buf, i + 1, it.d8, seq,
                       Append(regs, it.regval), oob)
    ELSE [regs |-> regs, d8 |-> d8]

\* seq_item_size != reg_len + val_len * 2 + 1, in u32
GeometryMismatch(seq) ==
    seq.seq_item_size #
        Add32(Add32(seq.reg_len, Add32(seq.val_len, seq.val_len)), <<0, 1>>)

(* maxim2c_i2c_parse_init_seq: alloc says which allocation fails ("none",  *)
(* "kmemdup", "kcalloc"), oob what a read beyond data_buf yields.          *)
(* consumed is the number of bytes d8 has advanced over.                   *)

maxim2c_i2c_parse_init_seq(seq_data, data_len, seq, alloc, oob) ==
    IF \/ seq.seq_item_size = <<0, 0>>
       \/ data_len = 0
       \/ seq.reg_len = <<0, 0>>
       \/ seq.val_len = <<0, 0>>
    THEN [ret |-> -EINVAL, init_seq |-> seq, consumed |-> 0]
    ELSE IF ModLen(data_len, seq.seq_item_size) # 0
    THEN [ret |-> -EINVAL, init_seq |-> seq, consumed |-> 0]
    ELSE IF GeometryMismatch(seq)
    THEN [ret |-> -EINVAL, init_seq |-> seq, consumed |-> 0]
    ELSE IF alloc = "kmemdup"
    THEN [ret |-> -ENOMEM, init_seq |-> seq, consumed |-> 0]
    ELSE LET size == DivLen(data_len, seq.seq_item_size) + 1
             seq1 == [seq EXCEPT !.reg_seq_size = <<0, size>>]
         IN  IF alloc = "kcalloc"
             THEN [ret |-> -ENOMEM,
                   init_seq |-> [seq1 EXCEPT !.reg_init_seq = NULL],
                   consumed |-> 0]
             ELSE LET l == ParseLoop(seq_data, 0, 0, seq1, <<>>, oob)
                      end == [ZeroRegval EXCEPT
                                 !.reg_len = seq1.reg_len[2],
                                 !.reg_addr = MAXIM2C_REG_NULL]
                  IN  [ret |-> 0,
                       init_seq |-> [seq1 EXCEPT
                                        !.reg_init_seq = Append(l.regs, end)],
                       consumed |-> l.d8]

(* maxim2c_i2c_load_init_seq: nd is the node: available, the property that *)
(* is missing ("none" if all are there), the init-sequence bytes and the   *)
(* three u32 properties.                                                   *)

maxim2c_i2c_load_init_seq(seq, nd, alloc, oob) ==
    LET s0 == [seq EXCEPT !.reg_init_seq = NULL, !.reg_seq_size = <<0, 0>>]
        s1 == [s0 EXCEPT !.seq_item_size = nd.sis]
        s2 == [s1 EXCEPT !.reg_len = nd.rl]
        s3 == [s2 EXCEPT !.val_len = nd.vl]
    IN  IF ~nd.available
        THEN [ret |-> 0, init_seq |-> s0, consumed |-> 0]
        ELSE IF nd.missing = "init-sequence"
        THEN [ret |-> -EINVAL, init_seq |-> s0, consumed |-> 0]
        ELSE IF Len(nd.data) = 0
        THEN [ret |-> -EINVAL, init_seq |-> s0, consumed |-> 0]
        ELSE IF nd.missing = "seq-item-size"
        THEN [ret |-> -EINVAL, init_seq |-> s0, consumed |-> 0]
        ELSE IF nd.missing = "reg-addr-len"
        THEN [ret |-> -EINVAL, init_seq |-> s1, consumed |-> 0]
        ELSE IF nd.missing = "reg-val-len"
        THEN [ret |-> -EINVAL, init_seq |-> s2, consumed |-> 0]
        ELSE maxim2c_i2c_parse_init_seq(nd.data, Len(nd.data), s3, alloc, oob)

(* maxim2c_i2c_run_init_seq *)

maxim2c_i2c_run_init_seq(seq, env) ==
    IF seq.reg_init_seq = NULL
    THEN [ret |-> 0, bus |-> <<>>]
    ELSE maxim2c_i2c_write_array(seq.reg_init_seq, env)

----------------------------------------------------------------------------
(* The i2c mux.  mux is maxim2c->i2c_mux (mux_disable, mux_channel; -1 is  *)
(* no channel).  r is what maxim2c_link_select_remote_control returns: 0,  *)
(* or a negative errno when the mask could not be programmed.  link is the *)
(* mask the call hands to it, NoLink if it makes no such call.             *)

NoLink == -1
BIT(n) == 2 ^ n

\* select without the mux_disable test
mux_select_no_disable_check(mux, chan, r) ==
    IF mux.mux_channel = chan
    THEN [mux |-> mux, ret |-> 0, link |-> NoLink]
    ELSE [mux |-> [mux EXCEPT !.mux_channel = chan],
          ret |-> r, link |-> BIT(chan)]

maxim2c_i2c_mux_select(mux, chan, r) ==
    IF mux.mux_disable
    THEN [mux |-> mux, ret |-> 0, link |-> NoLink]
    ELSE IF mux.mux_channel = chan
    THEN [mux |-> mux, ret |-> 0, link |-> NoLink]
    ELSE [mux |-> [mux EXCEPT !.mux_channel = chan],
          ret |-> r, link |-> BIT(chan)]

maxim2c_i2c_mux_disable(mux, r) ==
    IF r # 0
    THEN [mux |-> mux, ret |-> r, link |-> 255]
    ELSE [mux |-> [mux EXCEPT !.mux_disable = TRUE], ret |-> 0,
          link |-> 255]

maxim2c_i2c_mux_enable(mux, def_mask, r) ==
    IF r # 0
    THEN [mux |-> mux, ret |-> r, link |-> def_mask]
    ELSE [mux |-> [mux EXCEPT !.mux_disable = FALSE, !.mux_channel = -1],
          ret |-> 0, link |-> def_mask]

----------------------------------------------------------------------------
(* The record of a call *)

NoCall ==
    [op |-> "none", reg_addr |-> 0, reg_len |-> 0, val_len |-> <<0, 0>>,
     val_mask |-> <<0, 0>>, reg_val |-> <<0, 0>>, old |-> <<0, 0>>,
     ret |-> 0, bus |-> <<>>, regs |-> <<>>, consumed |-> 0,
     arg |-> 0, link |-> -1]

NoNode ==
    [available |-> FALSE, missing |-> "none", data |-> <<>>,
     sis |-> <<0, 0>>, rl |-> <<0, 0>>, vl |-> <<0, 0>>]
NoMux == [mux_disable |-> FALSE, mux_channel |-> -1]

----------------------------------------------------------------------------
(* Register I/O: one call of write, read or update from an idle caller.    *)

InitIO ==
    /\ pc = "idle"
    /\ call = NoCall
    /\ cell \in {Val32(0), Val32(1)}
    /\ node = NoNode
    /\ init_seq = ZeroSeq
    /\ i2c_mux = NoMux
    /\ link_mask = -1

Write(reg_addr, reg_len, val_len, reg_val, t) ==
    /\ pc = "idle"
    /\ LET w == maxim2c_i2c_write(reg_addr, reg_len, val_len, reg_val, t)
       IN  call' = [NoCall EXCEPT !.op = "write", !.reg_addr = reg_addr,
                        !.reg_len = reg_len, !.val_len = val_len,
                        !.reg_val = reg_val, !.ret = w.ret, !.bus = w.bus]
    /\ pc' = "done"
    /\ UNCHANGED <<cell, node, init_seq, i2c_mux, link_mask>>

Read(reg_addr, reg_len, val_len, t, rx) ==
    /\ pc = "idle"
    /\ LET r == maxim2c_i2c_read(reg_addr, reg_len, val_len, cell, t, rx)
       IN  /\ call' = [NoCall EXCEPT !.op = "read", !.reg_addr = reg_addr,
                           !.reg_len = reg_len, !.val_len = val_len,
                           !.old = cell, !.ret = r.ret, !.bus = r.bus]
           /\ cell' = r.reg_val
    /\ pc' = "done"
    /\ UNCHANGED <<node, init_seq, i2c_mux, link_mask>>

Update(reg_addr, reg_len, val_len, val_mask, reg_val, env) ==
    /\ pc = "idle"
    /\ LET u == maxim2c_i2c_update(reg_addr, reg_len, val_len, val_mask,
                                   reg_val, env)
       IN  call' = [NoCall EXCEPT !.op = "update", !.reg_addr = reg_addr,
                        !.reg_len = reg_len, !.val_len = val_len,
                        !.val_mask = val_mask, !.reg_val = reg_val,
                        !.ret = u.ret, !.bus = u.bus]
    /\ pc' = "done"
    /\ UNCHANGED <<cell, node, init_seq, i2c_mux, link_mask>>

BusEnvs == [xfer : XferRets, rx : RxSamples, send : SendRets]

DoWrite ==
    /\ pc = "idle"
    /\ \E a \in RegAddrs, rl \in RegLens, vl \in ValLens, v \in Vals32,
          t \in SendRets : Write(a, rl, vl, v, t)

DoRead ==
    /\ pc = "idle"
    /\ \E a \in RegAddrs, rl \in RegLens, vl \in ValLens,
          t \in XferRets, rx \in RxSamples : Read(a, rl, vl, t, rx)

DoUpdate ==
    /\ pc = "idle"
    /\ \E a \in RegAddrs, rl \in RegLens, vl \in ValLens, m \in Vals32,
          v \in Vals32, env \in BusEnvs : Update(a, rl, vl, m, v, env)

NextIO == DoWrite \/ DoRead \/ DoUpdate

SpecIO == InitIO /\ [][NextIO]_vars

----------------------------------------------------------------------------
(* Init sequences: load one from a node, then run it; or write a register  *)
(* array given by the caller.                                              *)

SeqData(p, len) ==
    [k \in 1..len |->
        CASE p = 0 -> k
          [] p = 1 -> 255
          [] p = 2 -> 0
          [] OTHER -> (k * k * 7 + p * 31) % 256]

DataSamples == {SeqData(p, len) : p \in 0..MaxPatIdx, len \in 0..MaxDataLen}
ItemSizes == {<<0, n>> : n \in 0..MaxItemSize} \cup {<<32768, 2>>}
GeomLens == {<<0, n>> : n \in 0..MaxGeomLen}
               \cup {<<32768, 0>>, <<65535, 65535>>}

\* nodes that are available and have all four properties
FullNodes ==
    [available : {TRUE}, missing : {"none"}, data : DataSamples,
     sis : ItemSizes, rl : GeomLens, vl : GeomLens]

\* a well-formed node, disabled or with one property missing
OddNodes ==
    [available : BOOLEAN,
     missing : {"none", "init-sequence", "seq-item-size", "reg-addr-len",
                "reg-val-len"},
     data : {SeqData(0, 8)}, sis : {<<0, 4>>}, rl : {<<0, 1>>},
     vl : {<<0, 1>>}]

Nodes == FullNodes \cup OddNodes

\* the caller's struct before a load: zeroed, or as an earlier load left it
LoadedBefore ==
    maxim2c_i2c_load_init_seq(ZeroSeq,
        [available |-> TRUE, missing |-> "none", data |-> SeqData(0, 5),
         sis |-> <<0, 5>>, rl |-> <<0, 2>>, vl |-> <<0, 1>>],
        "none", 0).init_seq

Entry(i) ==
    CASE i = 0 -> Regval(2, RegAddr(1), <<0, 1>>, Val32(1), <<0, 0>>, 0)
      [] i = 1 -> Regval(2, RegAddr(0), <<0, 2>>, Val32(1), Val32(3), 1)
      [] i = 2 -> Regval(1, RegAddr(1), <<0, 0>>, Val32(2), Val32(2), 0)
      [] i = 3 -> Regval(2, RegAddr(0), <<0, 5>>, Val32(1), <<0, 0>>, 2)
      [] OTHER -> Regval(1, RegAddr(i), <<0, i % 5>>, Val32(i), Val32(i + 1),
                         0)

Entries == {Entry(i) : i \in 0..MaxEntryIdx}
EndEntry == Regval(0, MAXIM2C_REG_NULL, <<0, 0>>, <<0, 0>>, <<0, 0>>, 0)

\* register arrays as callers pass them: closed by an end entry
Arrays == {Append(a, EndEntry) :
              a \in UNION {[1..n -> Entries] : n \in 0..MaxArr}}

ArrEnvs ==
    [failAt : 0..MaxFailAt, xfail : XferRets \ {2}, sfail : SendRets \ {1},
     rx : RxSamples]

InitSeq ==
    /\ pc = "idle"
    /\ call = NoCall
    /\ cell = Val32(0)
    /\ node = NoNode
    /\ init_seq \in {ZeroSeq, LoadedBefore}
    /\ i2c_mux = NoMux
    /\ link_mask = -1

LoadInitSeq(nd, alloc, oob) ==
    /\ pc = "idle"
    /\ LET r == maxim2c_i2c_load_init_seq(init_seq, nd, alloc, oob)
       IN  /\ init_seq' = r.init_seq
           /\ call' = [NoCall EXCEPT !.op = "load", !.ret = r.ret,
                           !.consumed = r.consumed]
    /\ node' = nd
    /\ pc' = "loaded"
    /\ UNCHANGED <<cell, i2c_mux, link_mask>>

RunInitSeq(env) ==
    /\ pc = "loaded"
    /\ LET r == maxim2c_i2c_run_init_seq(init_seq, env)
       IN  call' = [NoCall EXCEPT !.op = "run", !.ret = r.ret,
                        !.bus = r.bus, !.regs = init_seq.reg_init_seq]
    /\ pc' = "done"
    /\ UNCHANGED <<cell, node, init_seq, i2c_mux, link_mask>>

WriteArray(regs, env) ==
    /\ pc = "idle"
    /\ LET r == maxim2c_i2c_write_array(regs, env)
       IN  call' = [NoCall EXCEPT !.op = "write_array", !.ret = r.ret,
                        !.bus = r.bus, !.regs = regs]
    /\ pc' = "done"
    /\ UNCHANGED <<cell, node, init_seq, i2c_mux, link_mask>>

DoLoadInitSeq ==
    /\ pc = "idle"
    /\ \E nd \in Nodes, alloc \in {"none", "kmemdup", "kcalloc"},
          oob \in {0, 255} : LoadInitSeq(nd, alloc, oob)

DoRunInitSeq ==
    /\ pc = "loaded"
    /\ \E env \in ArrEnvs : RunInitSeq(env)

DoWriteArray ==
    /\ pc = "idle"
    /\ \E regs \in Arrays, env \in ArrEnvs : WriteArray(regs, env)

NextSeq == DoLoadInitSeq \/ DoRunInitSeq \/ DoWriteArray

SpecSeq == InitSeq /\ [][NextSeq]_vars

----------------------------------------------------------------------------
(* The mux after maxim2c_i2c_mux_init: the i2c-mux core calls select with  *)
(* a channel below MAXIM2C_LINK_ID_MAX, the driver calls enable and        *)
(* disable; every link select may fail.                                    *)

Channels == 0..(MAXIM2C_LINK_ID_MAX - 1)
DefMasks == 0..(BIT(MAXIM2C_LINK_ID_MAX) - 1)
LinkRets == {0, -EIO, -121}

InitMux ==
    /\ pc = "idle"
    /\ call = NoCall
    /\ cell = Val32(0)
    /\ node = NoNode
    /\ init_seq = ZeroSeq
    /\ i2c_mux = NoMux
    /\ link_mask = NoLink

\* the chip keeps the mask of the last link select that succeeded
Programmed(m, link, ret) == IF link # NoLink /\ ret = 0 THEN link ELSE m

MuxSelect(chan, r) ==
    /\ LET s == maxim2c_i2c_mux_select(i2c_mux, chan, r)
       IN  /\ i2c_mux' = s.mux
           /\ link_mask' = Programmed(link_mask, s.link, s.ret)
           /\ call' = [NoCall EXCEPT !.op = "select", !.arg = chan,
                           !.ret = s.ret, !.link = s.link]
    /\ UNCHANGED <<pc, cell, node, init_seq>>

MuxDisable(r) ==
    /\ LET s == maxim2c_i2c_mux_disable(i2c_mux, r)
       IN  /\ i2c_mux' = s.mux
           /\ link_mask' = Programmed(link_mask, s.link, s.ret)
           /\ call' = [NoCall EXCEPT !.op = "mux_disable", !.ret = s.ret,
                           !.link = s.link]
    /\ UNCHANGED <<pc, cell, node, init_seq>>

MuxEnable(def_mask, r) ==
    /\ LET s == maxim2c_i2c_mux_enable(i2c_mux, def_mask, r)
       IN  /\ i2c_mux' = s.mux
           /\ link_mask' = Programmed(link_mask, s.link, s.ret)
           /\ call' = [NoCall EXCEPT !.op = "mux_enable", !.arg = def_mask,
                           !.ret = s.ret, !.link = s.link]
    /\ UNCHANGED <<pc, cell, node, init_seq>>

DoMuxSelect == \E chan \in Channels, r \in LinkRets : MuxSelect(chan, r)
DoMuxDisable == \E r \in LinkRets : MuxDisable(r)
DoMuxEnable == \E m \in DefMasks, r \in LinkRets : MuxEnable(m, r)

NextMux == DoMuxSelect \/ DoMuxDisable \/ DoMuxEnable

SpecMux == InitMux /\ [][NextMux]_vars

----------------------------------------------------------------------------
(* What the claims speak of, stated without the operators above *)

\* byte of significance k (0 = least significant) of a u32
ByteOf(v, k) ==
    CASE k = 0 -> v[2] % 256
      [] k = 1 -> v[2] \div 256
      [] k = 2 -> v[1] % 256
      [] k = 3 -> v[1] \div 256

\* the reg_len bytes of a register address, most significant first
AddrBytes(reg_addr, reg_len) ==
    [j \in 1..reg_len |-> IF j = reg_len THEN reg_addr % 256
                          ELSE (reg_addr \div 256) % 256]

\* the low n bytes of v, most significant first
LowBytes(v, n) == [j \in 1..n |-> ByteOf(v, n - j)]

\* the u32 whose low bytes are the sequence d (most significant first) and
\* whose other bytes are 0
FromBytes(d) ==
    LET b(k) == IF k < Len(d) THEN d[Len(d) - k] ELSE 0
    IN  <<b(3) * 256 + b(2), b(1) * 256 + b(0)>>

RECURSIVE Merge16(_, _, _, _)
Merge16(v, m, r, n) ==
    IF n = 0 THEN 0
    ELSE (IF m % 2 = 1 THEN r % 2 ELSE v % 2)
         + 2 * Merge16(v \div 2, m \div 2, r \div 2, n - 1)

\* every bit of mask m taken from r, every other bit from v
Merge32(v, m, r) ==
    <<Merge16(v[1], m[1], r[1], 16), Merge16(v[2], m[2], r[2], 16)>>

----------------------------------------------------------------------------
\* C1: maxim2c_i2c_write with val_len > 4 returns -EINVAL and issues no bus
\* transfer; with reg_len in {1,2} and val_len <= 4 it issues exactly one
\* send of reg_len + val_len bytes, the register address big-endian followed
\* by the low val_len bytes of reg_val, most significant first; it returns 0
\* iff the bus reports reg_len + val_len bytes sent, and -EIO otherwise.
C1_Write ==
    (pc = "done" /\ call.op = "write") =>
        /\ Gt32(call.val_len, 4) =>
              (call.ret = -EINVAL /\ call.bus = <<>>)
        /\ (call.reg_len \in {1, 2} /\ ~Gt32(call.val_len, 4)) =>
              LET n == call.val_len[2]
              IN  /\ Len(call.bus) = 1
                  /\ call.bus[1].type = "send"
                  /\ call.bus[1].len = call.reg_len + n
                  /\ call.bus[1].data =
                        AddrBytes(call.reg_addr, call.reg_len)
                        \o LowBytes(call.reg_val, n)
                  /\ (call.ret = 0) <=> (call.bus[1].res = call.reg_len + n)
                  /\ call.ret \in {0, -EIO}

C1_Witness ==
    /\ pc = "done" /\ call.op = "write"
    /\ call.reg_len = 2 /\ call.val_len = <<0, 3>>
    /\ call.reg_val = Val32(1) /\ call.reg_addr = RegAddr(1)
    /\ call.ret = 0

\* C2: maxim2c_i2c_read with val_len 0 or > 4 returns -EINVAL, issues no bus
\* transfer and leaves *reg_val unchanged; with reg_len in {1,2} and
\* 1 <= val_len <= 4 it issues one two-message transfer (write of the
\* reg_len big-endian address bytes, read of val_len bytes); if both
\* messages complete it returns 0 and *reg_val is the received bytes
\* big-endian, zero-extended; otherwise it returns -EIO and leaves *reg_val
\* unchanged.
C2_Read ==
    (pc = "done" /\ call.op = "read") =>
        /\ (Gt32(call.val_len, 4) \/ call.val_len = <<0, 0>>) =>
              (call.ret = -EINVAL /\ call.bus = <<>> /\ cell = call.old)
        /\ (call.reg_len \in {1, 2} /\ ~Gt32(call.val_len, 4)
            /\ call.val_len # <<0, 0>>) =>
              LET n == call.val_len[2]
              IN  /\ Len(call.bus) = 1
                  /\ call.bus[1].type = "xfer"
                  /\ call.bus[1].len = call.reg_len
                  /\ call.bus[1].data =
                        AddrBytes(call.reg_addr, call.reg_len)
                  /\ call.bus[1].rlen = n
                  /\ call.bus[1].res = 2 =>
                        /\ call.ret = 0
                        /\ Len(call.bus[1].rdata) = n
                        /\ \A k \in 0..3 :
                              ByteOf(cell, k) =
                                 IF k < n THEN call.bus[1].rdata[n - k]
                                 ELSE 0
                  /\ call.bus[1].res # 2 =>
                        (call.ret = -EIO /\ cell = call.old)

C2_Witness ==
    /\ pc = "done" /\ call.op = "read"
    /\ call.reg_len = 2 /\ call.val_len = <<0, 3>>
    /\ call.reg_addr = RegAddr(1)
    /\ call.old = Val32(1) /\ call.ret = 0 /\ cell # call.old

\* C3: maxim2c_i2c_update first reads the register; if the read succeeds
\* with old value v it then writes exactly (v AND NOT val_mask) OR
\* (reg_val AND val_mask) to the same address with the same reg_len and
\* val_len; if the read fails no write is issued and the read's error code
\* is returned; the read always precedes the write.
C3_Update ==
    (pc = "done" /\ call.op = "update") =>
        LET rdInvalid == Gt32(call.val_len, 4) \/ call.val_len = <<0, 0>>
        IN  /\ \A k \in 1..Len(call.bus) :
                  call.bus[k].type = "send" =>
                     (k = 2 /\ call.bus[1].type = "xfer"
                      /\ call.bus[1].res = 2)
            /\ rdInvalid => (call.bus = <<>> /\ call.ret = -EINVAL)
            /\ ~rdInvalid =>
                  /\ Len(call.bus) >= 1
                  /\ call.bus[1].type = "xfer"
                  /\ call.bus[1].len = call.reg_len
                  /\ call.bus[1].rlen = call.val_len[2]
                  /\ call.bus[1].res # 2 =>
                        (Len(call.bus) = 1 /\ call.ret = -EIO)
                  /\ call.bus[1].res = 2 =>
                        LET v == FromBytes(call.bus[1].rdata)
                            w == maxim2c_i2c_write(call.reg_addr,
                                    call.reg_len, call.val_len,
                                    Merge32(v, call.val_mask, call.reg_val),
                                    1)
                        IN  /\ Len(call.bus) = 2
                            /\ call.bus[2].type = "send"
                            /\ call.bus[2].len = w.bus[1].len
                            /\ call.bus[2].data = w.bus[1].data
                            /\ (call.ret = 0) <=>
                                  (call.bus[2].res = call.bus[2].len)

C3_Witness ==
    /\ pc = "done" /\ call.op = "update"
    /\ call.reg_len = 2 /\ call.val_len = <<0, 4>>
    /\ call.val_mask = Val32(3) /\ call.reg_val = Val32(1)
    /\ Len(call.bus) = 2 /\ call.ret = 0

\* C4: loading from an available node returns -EINVAL and leaves the
\* sequence empty whenever seq_item_size, data_len, reg_len or val_len is
\* zero, or data_len is not a multiple of seq_item_size, or seq_item_size
\* differs from reg_len + 2*val_len + 1; for every other input, absent an
\* allocation failure, it returns 0 with reg_seq_size = data_len /
\* seq_item_size + 1.
C4_Load ==
    (pc = "loaded" /\ call.op = "load" /\ node.available
     /\ node.missing = "none") =>
        LET dl == Len(node.data)
            lo == node.rl[2] + 2 * node.vl[2] + 1
            hi == node.rl[1] + 2 * node.vl[1] + lo \div 65536
            sumIsItemSize == node.sis[1] = hi /\ node.sis[2] = lo % 65536
            multiple == node.sis[1] = 0 /\ node.sis[2] # 0
                        /\ dl % node.sis[2] = 0
            bad == \/ node.sis = <<0, 0>> \/ dl = 0
                   \/ node.rl = <<0, 0>> \/ node.vl = <<0, 0>>
                   \/ ~multiple \/ ~sumIsItemSize
        IN  /\ bad => /\ call.ret = -EINVAL
                      /\ init_seq.reg_init_seq = NULL
                      /\ init_seq.reg_seq_size = <<0, 0>>
            /\ (~bad /\ call.ret # -ENOMEM) =>
                  /\ call.ret = 0
                  /\ init_seq.reg_seq_size = <<0, dl \div node.sis[2] + 1>>

\* C5: for every geometry that passes validation, with N = data_len /
\* seq_item_size, the decoder produces N entries and an end entry with
\* reg_addr MAXIM2C_REG_NULL; entry i is decoded from the bytes
\* [i*seq_item_size, (i+1)*seq_item_size): reg_len address bytes, val_len
\* value bytes, val_len mask bytes, each big-endian, then one delay byte,
\* and carries the sequence's reg_len and val_len; no byte at or beyond
\* data_len is read.  (Fields are compared in the width they are stored in.)
C5_Decode ==
    (pc = "loaded" /\ call.op = "load" /\ call.ret = 0 /\ node.available) =>
        LET d == node.data
            sz == init_seq.seq_item_size[2]
            N == Len(d) \div sz
            regs == init_seq.reg_init_seq
            rl == init_seq.reg_len
            vl == init_seq.val_len
        IN  /\ Len(regs) = N + 1
            /\ regs[N + 1].reg_addr = MAXIM2C_REG_NULL
            /\ call.consumed <= Len(d)
            /\ \A i \in 0..(N - 1) :
                  LET base == i * sz
                      e == regs[i + 1]
                  IN  /\ e.reg_len = rl[2]
                      /\ e.val_len = vl
                      /\ e.delay = d[base + sz]
                      /\ (rl[1] = 0 /\ vl[1] = 0) =>
                            /\ \A k \in 0..1 :
                                  ByteOf(<<0, e.reg_addr>>, k) =
                                     IF k < rl[2]
                                     THEN d[base + rl[2] - k] ELSE 0
                            /\ \A k \in 0..3 :
                                  /\ ByteOf(e.reg_val, k) =
                                        IF k < vl[2]
                                        THEN d[base + rl[2] + vl[2] - k]
                                        ELSE 0
                                  /\ ByteOf(e.val_mask, k) =
                                        IF k < vl[2]
                                        THEN d[base + rl[2] + 2 * vl[2] - k]
                                        ELSE 0

\* the bus calls made for entry i of the array
EntryCalls(log, i) ==
    SelectSeq(BusCalls(log), LAMBDA x : x.idx = i)

\* E is empty, or the traffic of a masked update (val_mask # 0) or of a
\* plain write (val_mask = 0) of entry e
EntryShape(e, E) ==
    IF e.val_mask # <<0, 0>>
    THEN \/ E = <<>>
         \/ /\ Len(E) \in {1, 2}
            /\ E[1].type = "xfer"
            /\ E[1].len = e.reg_len
            /\ E[1].rlen = e.val_len[2]
            /\ Len(E) = 1 <=> E[1].res # 2
            /\ Len(E) = 2 =>
                  LET w == maxim2c_i2c_write(e.reg_addr, e.reg_len,
                              e.val_len,
                              Merge32(FromBytes(E[1].rdata), e.val_mask,
                                      e.reg_val), 1).bus[1]
                  IN  /\ E[2].type = "send"
                      /\ E[2].len = w.len
                      /\ E[2].data = w.data
    ELSE \/ E = <<>>
         \/ /\ Len(E) = 1
            /\ E[1].type = "send"
            /\ LET w == maxim2c_i2c_write(e.reg_addr, e.reg_len, e.val_len,
                                          e.reg_val, 1).bus[1]
               IN  E[1].len = w.len /\ E[1].data = w.data

\* the operation of entry e is refused before any bus call
EntryInvalid(e) ==
    \/ Gt32(e.val_len, 4)
    \/ e.val_mask # <<0, 0>> /\ e.val_len = <<0, 0>>

\* the operation of entry e went through
EntryDone(e, E) ==
    /\ Len(E) = IF e.val_mask # <<0, 0>> THEN 2 ELSE 1
    /\ E[Len(E)].type = "send"
    /\ E[Len(E)].res = E[Len(E)].len

\* C6: maxim2c_i2c_write_array (and maxim2c_i2c_run_init_seq on a loaded
\* sequence) applies the entries in array order up to, not including, the
\* first entry with reg_addr MAXIM2C_REG_NULL: a masked update if val_mask
\* is non-zero, a plain write if it is 0; once an entry fails no bus call is
\* made for a later entry and that entry's error code is returned; if none
\* fails it returns 0 after applying every entry exactly once.
C6_WriteArray ==
    (pc = "done" /\ call.op \in {"write_array", "run"}
     /\ call.regs # NULL) =>
        LET regs == call.regs
            end == CHOOSE i \in 1..Len(regs) :
                      /\ regs[i].reg_addr = MAXIM2C_REG_NULL
                      /\ \A j \in 1..(i - 1) :
                            regs[j].reg_addr # MAXIM2C_REG_NULL
            n == end - 1
            B == BusCalls(call.bus)
            E(i) == EntryCalls(call.bus, i)
        IN  /\ \A j \in 1..Len(B) : B[j].idx \in 1..n
            /\ \A j \in 1..(Len(B) - 1) : B[j].idx <= B[j + 1].idx
            /\ \A i \in 1..n : EntryShape(regs[i], E(i))
            /\ call.ret = 0 => \A i \in 1..n : EntryDone(regs[i], E(i))
            /\ call.ret # 0 =>
                  \E f \in 1..n :
                     /\ \A i \in 1..(f - 1) : EntryDone(regs[i], E(i))
                     /\ ~EntryDone(regs[f], E(f))
                     /\ \A i \in (f + 1)..n : E(i) = <<>>
                     /\ E(f) = <<>> <=> EntryInvalid(regs[f])
                     /\ call.ret = IF E(f) = <<>> THEN -EINVAL ELSE -EIO

C6_Witness ==
    /\ pc = "done" /\ call.op = "run" /\ call.ret = -EIO
    /\ Len(call.regs) >= 3 /\ call.regs[1].reg_len = 2
    /\ Len(BusCalls(call.bus)) = 3
    /\ call.bus[Len(call.bus)].type = "sleep"

\* C7: while mux_disable is true, maxim2c_i2c_mux_select(chan) returns 0,
\* issues no link select and leaves mux_channel unchanged, for every chan;
\* while the mux is enabled, select(chan) issues a link select with mask
\* BIT(chan) unless chan equals the recorded mux_channel, in which case it
\* issues none and returns 0.
C7_Select ==
    [][call'.op = "select" =>
          /\ i2c_mux.mux_disable =>
                /\ call'.ret = 0
                /\ call'.link = NoLink
                /\ link_mask' = link_mask
                /\ i2c_mux' = i2c_mux
          /\ ~i2c_mux.mux_disable =>
                IF call'.arg = i2c_mux.mux_channel
                THEN call'.link = NoLink /\ call'.ret = 0
                ELSE call'.link = BIT(call'.arg)]_vars

C7_Witness ==
    /\ call.op = "select" /\ i2c_mux.mux_disable
    /\ i2c_mux.mux_channel # -1
    /\ call.arg # i2c_mux.mux_channel
    /\ call.link = NoLink /\ call.ret = 0

\* C8: whenever the mux is enabled and the recorded mux_channel is a
\* channel c (not -1), the link-select mask most recently programmed
\* successfully into the chip is BIT(c).
C8_Coherent ==
    (~i2c_mux.mux_disable /\ i2c_mux.mux_channel # -1) =>
        link_mask = BIT(i2c_mux.mux_channel)

====
